---- MODULE Spec2Model ----
(***************************************************************************)
(* keepalived, DBus server thread for VRRP (keepalived/vrrp/vrrp_dbus.c).  *)
(*                                                                         *)
(* Two threads: the dbus (service) thread runs dbus_main, the GLib main    *)
(* loop and the bus callbacks (on_bus_acquired, on_name_lost,              *)
(* handle_method_call, handle_get_property, process_method_call); the main *)
(* vrrp (owner) thread runs handle_dbus_msg from its scheduler, the reload *)
(* entry points and dbus_stop.  They meet in two mutex guarded lists       *)
(* (dbus_in_queue, dbus_out_queue) and two pipes (dbus_in_pipe,            *)
(* dbus_out_pipe).                                                         *)
(*                                                                         *)
(* C strings are sequences of one-character strings (without the NUL).     *)
(***************************************************************************)
EXTENDS Naturals, Sequences, FiniteSets, TLC

-----------------------------------------------------------------------------
(* Bounds of the model *)

\* external requests the bus delivers to the service thread in one run
MaxCalls == 2
\* longest interface name the codec specification enumerates
MaxLen == 2

-----------------------------------------------------------------------------
(* Program constants *)

IFNAMSIZ == 16
AF_UNSPEC == 0
AF_INET == 2
AF_INET6 == 10

\* dbus_error_t
DBUS_SUCCESS == "DBUS_SUCCESS"
DBUS_INTERFACE_NOT_FOUND == "DBUS_INTERFACE_NOT_FOUND"
DBUS_OBJECT_ALREADY_EXISTS == "DBUS_OBJECT_ALREADY_EXISTS"

\* dbus_action_t
DBUS_PRINT_DATA == "DBUS_PRINT_DATA"
DBUS_PRINT_STATS == "DBUS_PRINT_STATS"
DBUS_CREATE_INSTANCE == "DBUS_CREATE_INSTANCE"
DBUS_DESTROY_INSTANCE == "DBUS_DESTROY_INSTANCE"
DBUS_SEND_GARP == "DBUS_SEND_GARP"
DBUS_GET_NAME == "DBUS_GET_NAME"
DBUS_GET_STATUS == "DBUS_GET_STATUS"

-----------------------------------------------------------------------------
(* Characters and C strings *)

Digits == <<"0", "1", "2", "3", "4", "5", "6", "7", "8", "9">>

Letters ==
    {"a", "b", "c", "d", "e", "f", "g", "h", "i", "j", "k", "l", "m",
     "n", "o", "p", "q", "r", "s", "t", "u", "v", "w", "x", "y", "z",
     "A", "B", "C", "D", "E", "F", "G", "H", "I", "J", "K", "L", "M",
     "N", "O", "P", "Q", "R", "S", "T", "U", "V", "W", "X", "Y", "Z"}

\* isalnum(3) in the C locale
isalnum(c) == c \in Letters \/ (\E i \in 1..10 : Digits[i] = c)

\* the byte at 1-based position i of a C string, "NUL" at its terminator
CharAt(s, i) == IF i <= Len(s) THEN s[i] ELSE "NUL"

\* strncpy(dst, src, n); dst[n - 1] = '\0' : at most n - 1 characters survive
strncpy_term(src, n) == IF Len(src) <= n - 1 THEN src ELSE SubSeq(src, 1, n - 1)

\* printf("%d") of a small natural
RECURSIVE Itoa(_)
Itoa(n) == IF n < 10 THEN <<Digits[n + 1]>>
           ELSE Itoa(n \div 10) \o <<Digits[(n % 10) + 1]>>

DigitVal(c) == CHOOSE d \in 0..9 : Digits[d + 1] = c

IsDigit(c) == \E i \in 1..10 : Digits[i] = c

\* atoi(3): the leading run of digits, 0 when there is none
RECURSIVE AtoiFrom(_, _, _)
AtoiFrom(s, i, acc) ==
    IF i <= Len(s) /\ IsDigit(s[i])
    THEN AtoiFrom(s, i + 1, acc * 10 + DigitVal(s[i]))
    ELSE acc
atoi(s) == AtoiFrom(s, 1, 0)

-----------------------------------------------------------------------------
(* Name codec: set_valid_path, valid_path_cmp *)

\* The only characters that are valid in a dbus path are A-Z, a-z, 0-9, _
set_valid_path(path) ==
    [i \in 1..Len(path) |-> IF ~isalnum(path[i]) THEN "_" ELSE path[i]]

\* the loop of valid_path_cmp from position i on; TRUE means "differs"
RECURSIVE valid_path_cmp_from(_, _, _)
valid_path_cmp_from(path, valid_path, i) ==
    IF CharAt(path, i) # "NUL" /\ CharAt(valid_path, i) # "NUL"
    THEN IF ~isalnum(path[i])
         THEN IF valid_path[i] # "_"
              THEN TRUE
              ELSE valid_path_cmp_from(path, valid_path, i + 1)
         ELSE IF path[i] # valid_path[i]
              THEN TRUE
              ELSE valid_path_cmp_from(path, valid_path, i + 1)
    ELSE CharAt(path, i) # CharAt(valid_path, i)

\* a slip: the final comparison of the terminators is dropped
valid_path_cmp_prefix(path, valid_path) ==
    \E i \in 1..(IF Len(path) < Len(valid_path) THEN Len(path) ELSE Len(valid_path)) :
        IF ~isalnum(path[i]) THEN valid_path[i] # "_" ELSE path[i] # valid_path[i]

valid_path_cmp(path, valid_path) == valid_path_cmp_from(path, valid_path, 1)

-----------------------------------------------------------------------------
(* The daemon's configuration: vrrp_data->vrrp, a list of vrrp_t *)

Rep(c, n) == [i \in 1..n |-> c]

VRRP_STATE_BACK == 1
VRRP_STATE_MAST == 2

Vrrp(iname, ifname, vrid, family) ==
    [iname |-> iname, ifname |-> ifname, vrid |-> vrid, family |-> family,
     state |-> VRRP_STATE_BACK]

Name_VI1 == <<"V", "I", "_", "1">>
Name_VI2 == <<"V", "I", "_", "2">>
\* an instance name one character longer than dbus_queue_ent_t.str can hold
Name_Long == Rep("x", IFNAMSIZ + 1)
\* the key on_bus_acquired stores the root object under
Name_Root == <<"_", "_", "V", "r", "r", "p", "_", "_">>

If_eth0 == <<"e", "t", "h", "0">>
\* two interface names that set_valid_path maps to the same segment
If_dash == <<"e", "-", "0">>
If_dot == <<"e", ".", "0">>

\* the configurations a run starts from
Configs ==
    { << >>,
      << Vrrp(Name_Long, If_eth0, 1, AF_INET) >>,
      << Vrrp(Name_VI1, If_dash, 1, AF_INET), Vrrp(Name_VI2, If_dot, 1, AF_INET) >> }

-----------------------------------------------------------------------------
(* Object paths.  network_namespace and instance_name are not configured, so *)
(* a path is DBUS_VRRP_OBJECT_ROOT followed by "/Vrrp" or by               *)
(* "/Instance/<interface>/<vrid>/<family>".                                *)

dbus_object_create_path_vrrp ==
    [kind |-> "Vrrp", interface |-> << >>, vrid |-> << >>, family |-> "-"]

dbus_object_create_path_instance(interface, vrid, family) ==
    [kind |-> "Instance",
     interface |-> set_valid_path(interface),
     vrid |-> Itoa(vrid),
     family |-> IF family = AF_INET THEN "IPv4"
                ELSE IF family = AF_INET6 THEN "IPv6" ELSE "None"]

\* handle_get_property: the last three levels of the object path
PathInterface(object_path) == object_path.interface
PathVrid(object_path) == atoi(object_path.vrid)
PathFamily(object_path) ==
    IF object_path.family = "IPv4" THEN AF_INET
    ELSE IF object_path.family = "IPv6" THEN AF_INET6 ELSE AF_UNSPEC

-----------------------------------------------------------------------------
(* The registry: GHashTable *objects, keys compared with g_str_equal.      *)
(* [null |-> TRUE] is the NULL pointer; tbl is the set of (key, value).    *)

ObjectsNull == [null |-> TRUE, tbl |-> {}]
g_hash_table_new == [null |-> FALSE, tbl |-> {}]

\* NULL (0) when the table is NULL, the key is absent or its value is 0
g_hash_table_lookup(table, key) ==
    IF table.null \/ ~\E e \in table.tbl : e.key = key
    THEN 0
    ELSE (CHOOSE e \in table.tbl : e.key = key).value

\* an existing key keeps its place and takes the new value
g_hash_table_insert(table, key, value) ==
    IF table.null THEN table
    ELSE [table EXCEPT !.tbl = {e \in @ : e.key # key}
                                  \cup {[key |-> key, value |-> value]}]

g_hash_table_remove(table, key) ==
    IF table.null THEN table
    ELSE [table EXCEPT !.tbl = {e \in @ : e.key # key}]

-----------------------------------------------------------------------------
(* The bus connection: the objects it exports, each under a registration id *)

\* g_dbus_connection_register_object: 0 when there is no connection or an
\* object is already exported at the path, else the next registration id
g_dbus_connection_register_object(connection, exp, id, path) ==
    IF connection = "NULL" \/ \E x \in exp : x.path = path THEN 0 ELSE id

\* the exported set after a registration that returned instance
ExportedAfter(exp, path, instance) ==
    IF instance = 0 THEN exp ELSE exp \cup {[path |-> path, id |-> instance]}

NextIdAfter(id, instance) == IF instance = 0 THEN id ELSE id + 1

g_dbus_connection_unregister_object(connection, exp, id) ==
    IF connection = "NULL" THEN exp ELSE {x \in exp : x.id # id}

-----------------------------------------------------------------------------
(* State *)

VARIABLES
    \* the daemon (owner thread's data)
    vrrp_data,          \* vrrp_data->vrrp: the live list of vrrp_t
    garps,              \* per instance, the calls of vrrp_send_link_update
    \* the bus transport
    bus,                \* g_bus_own_name: "none", "connecting", "acquired", "lost"
    global_connection,  \* "NULL" or "conn"
    exported,           \* objects registered with the connection: {[path, id]}
    next_id,            \* the next registration id the connection hands out
    objects,            \* the registry (GHashTable *)
    loop,               \* GMainLoop: "NULL", "running", "quit"
    signals,            \* the signals emitted on the connection, in order
    \* the bridge
    dbus_in_queue,      \* [null, els]: list of entry addresses
    dbus_out_queue,
    dbus_in_pipe,       \* bytes in the pipe
    dbus_out_pipe,
    thread_end,         \* semaphore
    armed,              \* thread_add_read(handle_dbus_msg) is registered
    heap,               \* allocated dbus_queue_ent_t, by address
    \* the service thread
    svc_pc,
    req,                \* the external request: being served, or the last served
    call,               \* the arguments of process_method_call
    ent,                \* process_method_call's ent
    msg,                \* process_method_call's msg
    \* the owner thread
    own_pc,
    o_ent,              \* handle_dbus_msg's ent
    \* the process
    crashed,            \* a NULL list was dereferenced
    ncalls,             \* external requests delivered so far
    \* the codec specification
    c_pc, c_n1, c_n2, c_seg, c_match,
    \* the reload specification: dbus_add_new_instances(o, n)
    n_pc,               \* where the reload is
    n_old,              \* o: the list before the reload
    n_new,              \* n: the list after the reload
    n_e1,               \* the element of n the outer loop is at
    \* the statistics specification: vrrp_print_stats(clear_stats)
    stats,              \* vrrp->stats of each instance (one counter)
    p_pc,               \* where the call is
    p_asked,            \* the caller asked for the counters to be cleared
    p_clear,            \* the value of the parameter clear_stats
    p_open,             \* fopen_safe returned a file
    p_i,                \* the instance the loop is at
    p_stats0            \* the counters when the call was made

daemonVars == <<vrrp_data, garps>>
busVars == <<bus, global_connection, exported, next_id, objects, loop, signals>>
queueVars == <<dbus_in_queue, dbus_out_queue, dbus_in_pipe, dbus_out_pipe>>
svcVars == <<svc_pc, req, call, ent, msg>>
ownVars == <<own_pc, o_ent, armed>>
codecVars == <<c_pc, c_n1, c_n2, c_seg, c_match>>
reloadVars == <<n_pc, n_old, n_new, n_e1>>
statsVars == <<stats, p_pc, p_asked, p_clear, p_open, p_i, p_stats0>>

vars == <<vrrp_data, garps, bus, global_connection, exported, next_id, objects,
          loop, signals, dbus_in_queue, dbus_out_queue, dbus_in_pipe, dbus_out_pipe,
          thread_end, armed, heap, svc_pc, req, call, ent, msg,
          own_pc, o_ent, crashed, ncalls,
          c_pc, c_n1, c_n2, c_seg, c_match,
          n_pc, n_old, n_new, n_e1,
          stats, p_pc, p_asked, p_clear, p_open, p_i, p_stats0>>

\* GVariant arguments of a call: the type string and its fields
NoArgs == [type |-> "NULL", s1 |-> << >>, s2 |-> << >>, u1 |-> 0, u2 |-> 0]
Args_s(s) == [type |-> "(s)", s1 |-> s, s2 |-> << >>, u1 |-> 0, u2 |-> 0]
Args_suu(s, u1, u2) == [type |-> "(suu)", s1 |-> s, s2 |-> << >>, u1 |-> u1, u2 |-> u2]
Args_ssuu(s1, s2, u1, u2) == [type |-> "(ssuu)", s1 |-> s1, s2 |-> s2, u1 |-> u1, u2 |-> u2]

\* ent->args: NULL, "(u)" family, or "(su)" name and family
NoEntArgs == [type |-> "NULL", name |-> << >>, family |-> 0]

\* a request: what was asked (method or property, object path, parameters),
\* garps at its delivery, and what came of it: the reply code and payload the
\* last process_method_call read from its entry, and the answer given to the
\* bus ("pending" while served; "value", "error", "null" or "dropped")
\* the interface names handle_method_call and handle_get_property compare with
DBUS_VRRP_INTERFACE == "DBUS_VRRP_INTERFACE"
DBUS_VRRP_INSTANCE_INTERFACE == "DBUS_VRRP_INSTANCE_INTERFACE"

NoReq == [method |-> "none", path |-> dbus_object_create_path_vrrp,
          interface |-> "none",
          parameters |-> NoArgs, garps0 |-> << >>,
          reply |-> "none", str |-> << >>, val |-> 0, answer |-> "none"]
NewReq(method, path, parameters, g) ==
    [method |-> method, path |-> path,
     interface |-> IF path.kind = "Vrrp" THEN DBUS_VRRP_INTERFACE
                   ELSE DBUS_VRRP_INSTANCE_INTERFACE,
     parameters |-> parameters, garps0 |-> g,
     reply |-> "none", str |-> << >>, val |-> 0, answer |-> "pending"]
NoCall == [action |-> "DBUS_ACTION_NONE", args |-> NoArgs, return_data |-> FALSE,
           frame |-> "none"]

EmptyList == [null |-> FALSE, els |-> << >>]
NullList == [null |-> TRUE, els |-> << >>]

\* LIST_ISEMPTY: a NULL list counts as empty
LIST_ISEMPTY(l) == l.null \/ l.els = << >>

\* the state dbus_start leaves: lists allocated, pipes open, the handler
\* registered on dbus_in_pipe[0], the semaphore at 0, the dbus thread created
InitBridge(configs) ==
    /\ vrrp_data \in configs
    /\ garps = [i \in 1..Len(vrrp_data) |-> 0]
    /\ bus = "none"
    /\ global_connection = "NULL"
    /\ exported = {}
    /\ next_id = 1
    /\ objects = ObjectsNull
    /\ loop = "NULL"
    /\ signals = << >>
    /\ dbus_in_queue = EmptyList
    /\ dbus_out_queue = EmptyList
    /\ dbus_in_pipe = 0
    /\ dbus_out_pipe = 0
    /\ thread_end = 0
    /\ armed = TRUE
    /\ heap = << >>
    /\ svc_pc = "dbus_main"
    /\ req = NoReq
    /\ call = NoCall
    /\ ent = 0
    /\ msg = "none"
    /\ own_pc = "idle"
    /\ o_ent = 0
    /\ crashed = FALSE
    /\ ncalls = 0

CodecIdle ==
    /\ c_pc = "off"
    /\ c_n1 = << >>
    /\ c_n2 = << >>
    /\ c_seg = << >>
    /\ c_match = FALSE

\* no reload is made
ReloadIdle ==
    /\ n_pc = "off"
    /\ n_old = << >>
    /\ n_new = << >>
    /\ n_e1 = 0

\* the counters are not followed
StatsIdle ==
    /\ stats = << >>
    /\ p_pc = "off"
    /\ p_asked = FALSE
    /\ p_clear = FALSE
    /\ p_open = FALSE
    /\ p_i = 0
    /\ p_stats0 = << >>

Init == InitBridge(Configs) /\ CodecIdle /\ ReloadIdle /\ StatsIdle

-----------------------------------------------------------------------------
(* The service thread: dbus_main and the bus callbacks *)

\* dbus_main: the registry is created and the introspection data of the two
\* interfaces is read from the XML files (vrrp_introspection_data and
\* vrrp_instance_introspection_data are NULL until then)
DbusMain ==
    /\ ~crashed /\ svc_pc = "dbus_main"
    /\ objects' = g_hash_table_new
    /\ svc_pc' = "dbus_own"
    /\ UNCHANGED <<daemonVars, bus, global_connection, exported, next_id, loop,
                   signals, queueVars, thread_end, heap, req, call, ent, msg,
                   ownVars, crashed, ncalls, codecVars, reloadVars, statsVars>>

\* dbus_main: g_bus_own_name, g_main_loop_new, g_main_loop_run
DbusMainRun ==
    /\ ~crashed /\ svc_pc = "dbus_own"
    /\ bus' = "connecting"
    /\ loop' = "running"
    /\ svc_pc' = "loop"
    /\ UNCHANGED <<daemonVars, global_connection, exported, next_id, objects,
                   signals, queueVars, thread_end, heap, req, call, ent, msg,
                   ownVars, crashed, ncalls, codecVars, reloadVars, statsVars>>

\* g_dbus_connection_emit_signal(connection, NULL, path, interface, name, args)
\* a signal emitted on the connection: its name, the object path it is emitted
\* for and the function that emitted it (its arguments are not kept)
Signal(name, path, by) == [name |-> name, path |-> path, by |-> by]

\* dbus_send_state_signal: nothing without a connection, else VrrpStatusChange
\* on the instance's path; by is the caller
dbus_send_state_signal(connection, vrrp, by) ==
    IF connection = "NULL"
    THEN << >>
    ELSE << Signal("VrrpStatusChange",
                   dbus_object_create_path_instance(vrrp.ifname, vrrp.vrid, vrrp.family),
                   by) >>

\* on_bus_acquired's loop over vrrp_data->vrrp from element i on
RECURSIVE RegisterInstances(_, _, _, _, _)
RegisterInstances(list, i, objs, exp, id) ==
    IF i > Len(list)
    THEN [objects |-> objs, exported |-> exp, next_id |-> id]
    ELSE LET vrrp == list[i]
             path == dbus_object_create_path_instance(vrrp.ifname, vrrp.vrid, vrrp.family)
             instance == g_dbus_connection_register_object("conn", exp, id, path)
         IN  RegisterInstances(list, i + 1,
                 IF instance # 0
                 THEN g_hash_table_insert(objs, vrrp.iname, instance)
                 ELSE objs,
                 ExportedAfter(exp, path, instance),
                 NextIdAfter(id, instance))

\* on_bus_acquired: the root object, then one object per configured instance
on_bus_acquired(list, objs, exp, id) ==
    LET path == dbus_object_create_path_vrrp
        vrrp == g_dbus_connection_register_object("conn", exp, id, path)
    IN  RegisterInstances(list, 1,
            g_hash_table_insert(objs, Name_Root, vrrp),
            ExportedAfter(exp, path, vrrp),
            NextIdAfter(id, vrrp))

OnBusAcquired ==
    /\ ~crashed /\ svc_pc = "loop" /\ loop = "running" /\ bus = "connecting"
    /\ LET r == on_bus_acquired(vrrp_data, objects, exported, next_id)
       IN  /\ objects' = r.objects
           /\ exported' = r.exported
           /\ next_id' = r.next_id
    /\ global_connection' = "conn"
    /\ bus' = "acquired"
    /\ svc_pc' = IF LIST_ISEMPTY([null |-> FALSE, els |-> vrrp_data])
                 THEN "loop" ELSE "oba_started"
    /\ UNCHANGED <<daemonVars, loop, signals, queueVars, thread_end, heap,
                   req, call, ent, msg, ownVars, crashed, ncalls, codecVars, reloadVars, statsVars>>

\* on_bus_acquired, the list not being empty: "Send a signal to say we have
\* started"
OnBusAcquiredStarted ==
    /\ ~crashed /\ svc_pc = "oba_started"
    /\ signals' = Append(signals, Signal("VrrpStarted", dbus_object_create_path_vrrp,
                                         "on_bus_acquired"))
    /\ svc_pc' = "oba_state"
    /\ UNCHANGED <<daemonVars, bus, global_connection, exported, next_id,
                   objects, loop, queueVars, thread_end, heap, req, call, ent,
                   msg, ownVars, crashed, ncalls, codecVars, reloadVars, statsVars>>

\* the element on_bus_acquired's second loop over vrrp_data->vrrp is at
StateLoopAt ==
    1 + Cardinality({k \in 1..Len(signals) :
                        /\ signals[k].by = "on_bus_acquired"
                        /\ signals[k].name = "VrrpStatusChange"})

\* on_bus_acquired: "Notify DBus of the state of our instances", one element
\* of vrrp_data->vrrp per step: vrrp->state is read here, on the dbus thread
OnBusAcquiredState ==
    /\ ~crashed /\ svc_pc = "oba_state"
    /\ signals' = signals \o dbus_send_state_signal(global_connection,
                                  vrrp_data[StateLoopAt], "on_bus_acquired")
    /\ svc_pc' = IF StateLoopAt = Len(vrrp_data) THEN "loop" ELSE "oba_state"
    /\ UNCHANGED <<daemonVars, bus, global_connection, exported, next_id,
                   objects, loop, queueVars, thread_end, heap, req, call, ent,
                   msg, ownVars, crashed, ncalls, codecVars, reloadVars, statsVars>>

\* on_name_lost: g_hash_table_foreach_remove(objects, unregister_object), whose
\* callback removes the key it is visiting from the table being traversed.
\* GLib leaves that undefined: the traversal visits every entry, or stops
\* after the first one.  gone is the set of entries visited.
OnNameLost ==
    /\ ~crashed /\ svc_pc = "loop" /\ loop = "running"
    /\ bus \in {"connecting", "acquired"}
    /\ \E gone \in {objects.tbl} \cup {{e} : e \in objects.tbl} :
           exported' = {x \in exported :
                           \/ bus = "connecting"
                           \/ ~\E e \in gone : e.value = x.id}
    /\ objects' = ObjectsNull
    /\ global_connection' = "NULL"
    /\ bus' = "lost"
    /\ UNCHANGED <<daemonVars, next_id, loop, signals, queueVars, thread_end,
                   heap, svcVars, ownVars, crashed, ncalls, codecVars, reloadVars, statsVars>>

\* dbus_main after g_main_loop_run returned
LoopExit ==
    /\ ~crashed /\ svc_pc = "loop" /\ loop = "quit"
    /\ global_connection' = "NULL"
    /\ thread_end' = thread_end + 1
    /\ svc_pc' = "exited"
    /\ UNCHANGED <<daemonVars, bus, exported, next_id, objects, loop, signals,
                   queueVars, heap, req, call, ent, msg, ownVars, crashed, ncalls,
                   codecVars, reloadVars, statsVars>>

-----------------------------------------------------------------------------
(* The service thread: the dispatcher *)

\* the arguments external callers give (a few of each shape)
CreateArgs == {Args_ssuu(Name_VI1, If_dot, 1, 6),
               Args_ssuu(Name_VI2, If_eth0, 1, 4)}
DestroyNames == {Name_VI1, Name_Root}

RootCalls ==
    {[method |-> "PrintData", parameters |-> NoArgs],
     [method |-> "PrintStats", parameters |-> NoArgs]}
    \cup {[method |-> "CreateInstance", parameters |-> a] : a \in CreateArgs}
    \cup {[method |-> "DestroyInstance", parameters |-> Args_s(n)] :
             n \in DestroyNames}

\* the bus delivers a call only to an object the connection exports
Exported(path) == \E x \in exported : x.path = path
InstancePaths == {x.path : x \in {y \in exported : y.path.kind = "Instance"}}

Deliverable == ~crashed /\ svc_pc = "loop" /\ loop = "running" /\ ncalls < MaxCalls

\* the action handle_method_call passes to process_method_call
MethodAction(method) ==
    CASE method = "PrintData" -> DBUS_PRINT_DATA
      [] method = "PrintStats" -> DBUS_PRINT_STATS
      [] method = "CreateInstance" -> DBUS_CREATE_INSTANCE
      [] method = "DestroyInstance" -> DBUS_DESTROY_INSTANCE

\* handle_get_property's arguments for process_method_call: the interface,
\* the vrid and the family cut out of the object path
PropertyArgs(object_path) ==
    Args_suu(PathInterface(object_path), PathVrid(object_path), PathFamily(object_path))

\* handle_method_call on the root object, interface DBUS_VRRP_INTERFACE
HandleMethodCall ==
    /\ Deliverable /\ Exported(dbus_object_create_path_vrrp)
    /\ \E c \in RootCalls :
        /\ req' = NewReq(c.method, dbus_object_create_path_vrrp, c.parameters, garps)
        /\ call' = [action |-> MethodAction(c.method), args |-> c.parameters,
                    return_data |-> FALSE, frame |-> "handle_method_call"]
    /\ svc_pc' = "pmc_add"
    /\ ncalls' = ncalls + 1
    /\ UNCHANGED <<daemonVars, busVars, queueVars, thread_end, heap,
                   ent, msg, ownVars, crashed, codecVars, reloadVars, statsVars>>

\* handle_method_call on an instance object, method SendGarp: it first reads
\* the Name property through handle_get_property
HandleMethodCallSendGarp ==
    /\ Deliverable
    /\ \E p \in InstancePaths :
        /\ req' = NewReq("SendGarp", p, NoArgs, garps)
        /\ call' = [action |-> DBUS_GET_NAME, args |-> PropertyArgs(p),
                    return_data |-> TRUE, frame |-> "SendGarp"]
    /\ svc_pc' = "pmc_add"
    /\ ncalls' = ncalls + 1
    /\ UNCHANGED <<daemonVars, busVars, queueVars, thread_end, heap,
                   ent, msg, ownVars, crashed, codecVars, reloadVars, statsVars>>

\* handle_get_property on an instance object, property Name or State
HandleGetProperty ==
    /\ Deliverable
    /\ \E p \in InstancePaths, property_name \in {"Name", "State"} :
        /\ req' = NewReq(property_name, p, NoArgs, garps)
        /\ call' = [action |-> IF property_name = "Name" THEN DBUS_GET_NAME
                                ELSE DBUS_GET_STATUS,
                    args |-> PropertyArgs(p),
                    return_data |-> TRUE, frame |-> "handle_get_property"]
    /\ svc_pc' = "pmc_add"
    /\ ncalls' = ncalls + 1
    /\ UNCHANGED <<daemonVars, busVars, queueVars, thread_end, heap,
                   ent, msg, ownVars, crashed, codecVars, reloadVars, statsVars>>

\* requests whose interface, method or property the dispatcher does not know
UnknownInterface == "org.keepalived.Vrrp1.Other"
UnknownMethodCalls ==
    {[interface |-> DBUS_VRRP_INTERFACE, method |-> "Unknown"],
     [interface |-> DBUS_VRRP_INSTANCE_INTERFACE, method |-> "Unknown"],
     [interface |-> UnknownInterface, method |-> "PrintData"]}
UnknownPropertyGets ==
    {[interface |-> UnknownInterface, property |-> "Name"],
     [interface |-> DBUS_VRRP_INSTANCE_INTERFACE, property |-> "Priority"]}

\* handle_method_call, the three branches that end in
\* g_dbus_method_invocation_return_error: "Method not implemented" on either
\* interface, "Interface not implemented" on any other
HandleMethodCallNotImplemented ==
    /\ Deliverable
    /\ \E x \in exported, c \in UnknownMethodCalls :
        /\ x.path.kind = IF c.interface = DBUS_VRRP_INSTANCE_INTERFACE
                         THEN "Instance" ELSE "Vrrp"
        /\ req' = [NewReq(c.method, x.path, NoArgs, garps) EXCEPT
                   !.interface = c.interface,
                   !.answer = IF c.interface \in {DBUS_VRRP_INTERFACE,
                                                  DBUS_VRRP_INSTANCE_INTERFACE}
                              THEN "Method not implemented"
                              ELSE "Interface not implemented"]
    /\ svc_pc' = "answered"
    /\ ncalls' = ncalls + 1
    /\ UNCHANGED <<daemonVars, busVars, queueVars, thread_end, heap,
                   call, ent, msg, ownVars, crashed, codecVars, reloadVars, statsVars>>

\* handle_method_call, method ReloadConfig of the root object: the
\* invocation is answered first, then SIGHUP is sent to the parent process;
\* the bridge is not used
HandleMethodCallReloadConfig ==
    /\ Deliverable /\ Exported(dbus_object_create_path_vrrp)
    /\ req' = [NewReq("ReloadConfig", dbus_object_create_path_vrrp, NoArgs, garps)
               EXCEPT !.answer = "value"]
    /\ svc_pc' = "answered"
    /\ ncalls' = ncalls + 1
    /\ UNCHANGED <<daemonVars, busVars, queueVars, thread_end, heap,
                   call, ent, msg, ownVars, crashed, codecVars, reloadVars, statsVars>>

\* handle_get_property, the two early returns: the interface is not
\* DBUS_VRRP_INSTANCE_INTERFACE, or the property is neither Name nor State;
\* it logs and returns NULL, *error is not set
HandleGetPropertyNotImplemented ==
    /\ Deliverable
    /\ \E x \in exported, c \in UnknownPropertyGets :
        /\ x.path.kind = IF c.interface = DBUS_VRRP_INSTANCE_INTERFACE
                         THEN "Instance" ELSE "Vrrp"
        /\ req' = [NewReq(c.property, x.path, NoArgs, garps) EXCEPT
                   !.interface = c.interface,
                   !.answer = "null"]
    /\ svc_pc' = "answered"
    /\ ncalls' = ncalls + 1
    /\ UNCHANGED <<daemonVars, busVars, queueVars, thread_end, heap,
                   call, ent, msg, ownVars, crashed, codecVars, reloadVars, statsVars>>

-----------------------------------------------------------------------------
(* The service thread: process_method_call *)

\* the entry process_method_call allocates and fills.  MALLOC zeroes the
\* memory, so reply starts as DBUS_SUCCESS (0) and str as "".  st is not a
\* field of the C struct: it records whether handle_dbus_msg has executed
\* the entry ("Pending", then "Completed").
NewEnt(action, args) ==
    [action |-> action,
     reply |-> DBUS_SUCCESS,
     str |-> CASE args.type = "(s)" -> args.s1
               [] args.type = "(suu)" -> args.s1
               [] args.type = "(ssuu)" -> args.s2
               [] OTHER -> << >>,
     val |-> IF args.type \in {"(suu)", "(ssuu)"} THEN args.u1 ELSE 0,
     args |-> CASE args.type = "(suu)" ->
                     [type |-> "(u)", name |-> << >>, family |-> args.u2]
                [] args.type = "(ssuu)" ->
                     [type |-> "(su)", name |-> args.s1, family |-> args.u2]
                [] OTHER -> NoEntArgs,
     st |-> "Pending"]

\* the address of a new entry: one not handed out before (the request's
\* number, and whether this is the second call made for it)
MALLOC == 2 * ncalls - (IF call.action = DBUS_SEND_GARP THEN 0 ELSE 1)

Free(h, a) == [x \in DOMAIN h \ {a} |-> h[x]]

\* allocate and fill the entry, append it to dbus_in_queue under in_queue_lock.
\* list_add on the NULL list dbus_stop leaves dereferences NULL.
PmcAdd ==
    /\ ~crashed /\ svc_pc = "pmc_add"
    /\ ent' = MALLOC
    /\ heap' = heap @@ (MALLOC :> NewEnt(call.action, call.args))
    /\ msg' = "none"
    /\ IF dbus_in_queue.null
       THEN /\ crashed' = TRUE
            /\ UNCHANGED <<dbus_in_queue, svc_pc>>
       ELSE /\ dbus_in_queue' = [dbus_in_queue EXCEPT !.els = Append(@, MALLOC)]
            /\ svc_pc' = "pmc_write"
            /\ UNCHANGED crashed
    /\ UNCHANGED <<daemonVars, busVars, dbus_out_queue, dbus_in_pipe,
                   dbus_out_pipe, thread_end, req, call, ownVars, ncalls,
                   codecVars, reloadVars, statsVars>>

\* Tell the main thread that a queue entry is waiting
PmcWrite ==
    /\ ~crashed /\ svc_pc = "pmc_write"
    /\ dbus_in_pipe' = dbus_in_pipe + 1
    /\ svc_pc' = "pmc_read"
    /\ UNCHANGED <<daemonVars, busVars, dbus_in_queue, dbus_out_queue,
                   dbus_out_pipe, thread_end, heap, req, call, ent, msg,
                   ownVars, crashed, ncalls, codecVars, reloadVars, statsVars>>

\* Wait for a response: the blocking read of one byte from dbus_out_pipe[0]
PmcRead ==
    /\ ~crashed /\ svc_pc = "pmc_read"
    /\ dbus_out_pipe > 0
    /\ dbus_out_pipe' = dbus_out_pipe - 1
    /\ svc_pc' = "pmc_pop"
    /\ UNCHANGED <<daemonVars, busVars, dbus_in_queue, dbus_out_queue,
                   dbus_in_pipe, thread_end, heap, req, call, ent, msg,
                   ownVars, crashed, ncalls, codecVars, reloadVars, statsVars>>

\* the read returns -1 with an errno other than EINTR: "DBus response read
\* error" is logged and process_method_call goes on as after a byte
PmcReadError ==
    /\ ~crashed /\ svc_pc = "pmc_read"
    /\ svc_pc' = "pmc_pop"
    /\ UNCHANGED <<daemonVars, busVars, queueVars, thread_end, heap, req, call,
                   ent, msg, ownVars, crashed, ncalls, codecVars, reloadVars, statsVars>>

\* take the head of dbus_out_queue under out_queue_lock and compare it
PmcPop ==
    /\ ~crashed /\ svc_pc = "pmc_pop"
    /\ IF ~LIST_ISEMPTY(dbus_out_queue)
       THEN /\ dbus_out_queue' = [dbus_out_queue EXCEPT !.els = Tail(@)]
            /\ msg' = IF ent # Head(dbus_out_queue.els)
                      THEN "Returned dbus entry mismatch" ELSE "none"
       ELSE /\ msg' = "Empty dbus out queue"
            /\ UNCHANGED dbus_out_queue
    /\ svc_pc' = "pmc_ret"
    /\ UNCHANGED <<daemonVars, busVars, dbus_in_queue, dbus_in_pipe,
                   dbus_out_pipe, thread_end, heap, req, call, ent,
                   ownVars, crashed, ncalls, codecVars, reloadVars, statsVars>>

\* the rest of process_method_call (the reply is inspected, the entry is
\* freed as return_data is false), then handle_method_call answers:
\* g_dbus_method_invocation_return_value(invocation, NULL)
PmcReturnMethod ==
    /\ ~crashed /\ svc_pc = "pmc_ret" /\ call.frame = "handle_method_call"
    /\ req' = [req EXCEPT !.reply = heap[ent].reply,
                          !.str = heap[ent].str,
                          !.val = heap[ent].val,
                          !.answer = "value"]
    /\ heap' = Free(heap, ent)
    /\ svc_pc' = "answered"
    /\ UNCHANGED <<daemonVars, busVars, queueVars, thread_end, call, ent, msg,
                   ownVars, crashed, ncalls, codecVars, reloadVars, statsVars>>

\* the rest of process_method_call (the entry is kept as return_data is
\* true), then handle_get_property: the variant is built when the reply is
\* DBUS_SUCCESS and the entry is freed
PmcReturnProperty ==
    /\ ~crashed /\ svc_pc = "pmc_ret" /\ call.frame = "handle_get_property"
    /\ req' = [req EXCEPT !.reply = heap[ent].reply,
                          !.str = heap[ent].str,
                          !.val = heap[ent].val,
                          !.answer = IF heap[ent].reply = DBUS_SUCCESS
                                     THEN "value" ELSE "null"]
    /\ heap' = Free(heap, ent)
    /\ svc_pc' = "answered"
    /\ UNCHANGED <<daemonVars, busVars, queueVars, thread_end, call, ent, msg,
                   ownVars, crashed, ncalls, codecVars, reloadVars, statsVars>>

\* SendGarp: handle_get_property returned the name; handle_method_call makes
\* the second call with it
PmcReturnGarpName ==
    /\ ~crashed /\ svc_pc = "pmc_ret" /\ call.frame = "SendGarp"
    /\ heap[ent].reply = DBUS_SUCCESS
    /\ req' = [req EXCEPT !.reply = heap[ent].reply,
                          !.str = heap[ent].str,
                          !.val = heap[ent].val]
    /\ heap' = Free(heap, ent)
    /\ call' = [action |-> DBUS_SEND_GARP, args |-> Args_s(heap[ent].str),
                return_data |-> FALSE, frame |-> "handle_method_call"]
    /\ svc_pc' = "pmc_add"
    /\ UNCHANGED <<daemonVars, busVars, queueVars, thread_end, ent, msg,
                   ownVars, crashed, ncalls, codecVars, reloadVars, statsVars>>

\* SendGarp: handle_get_property returned NULL; "Name property not found",
\* handle_method_call returns without answering the invocation
PmcReturnGarpNoName ==
    /\ ~crashed /\ svc_pc = "pmc_ret" /\ call.frame = "SendGarp"
    /\ heap[ent].reply # DBUS_SUCCESS
    /\ req' = [req EXCEPT !.reply = heap[ent].reply,
                          !.str = heap[ent].str,
                          !.val = heap[ent].val,
                          !.answer = "dropped"]
    /\ heap' = Free(heap, ent)
    /\ svc_pc' = "answered"
    /\ UNCHANGED <<daemonVars, busVars, queueVars, thread_end, call, ent, msg,
                   ownVars, crashed, ncalls, codecVars, reloadVars, statsVars>>

\* the callback returns to the main loop; its locals are gone
CallbackReturn ==
    /\ ~crashed /\ svc_pc = "answered"
    /\ svc_pc' = "loop"
    /\ req' = NoReq
    /\ call' = NoCall
    /\ ent' = 0
    /\ msg' = "none"
    /\ UNCHANGED <<daemonVars, busVars, queueVars, thread_end, heap,
                   ownVars, crashed, ncalls, codecVars, reloadVars, statsVars>>

-----------------------------------------------------------------------------
(* The owner thread: what handle_dbus_msg calls *)

\* get_vrrp_instance: the first instance from element i on with this vrid and
\* family whose interface name matches the path segment; 0 is NULL
RECURSIVE get_vrrp_instance_from(_, _, _, _, _)
get_vrrp_instance_from(list, i, ifname, vrid, family) ==
    IF i > Len(list) THEN 0
    ELSE IF /\ list[i].vrid = vrid
            /\ list[i].family = family
            /\ ~valid_path_cmp(list[i].ifname, ifname)
         THEN i
         ELSE get_vrrp_instance_from(list, i + 1, ifname, vrid, family)

get_vrrp_instance(list, ifname, vrid, family) ==
    get_vrrp_instance_from(list, 1, ifname, vrid, family)

\* the DBUS_SEND_GARP loop: the first instance whose iname is str; 0 is none
RECURSIVE find_iname_from(_, _, _)
find_iname_from(list, i, str) ==
    IF i > Len(list) THEN 0
    ELSE IF list[i].iname = str THEN i
    ELSE find_iname_from(list, i + 1, str)

\* a slip: the object is registered and stored before the lookup is acted on
dbus_create_object_params_store_first(objs, exp, id, conn, instance_name, interface_name, vrid, family) ==
    LET object_path == dbus_object_create_path_instance(interface_name, vrid, family)
        instance == g_dbus_connection_register_object(conn, exp, id, object_path)
    IN  [reply |-> IF g_hash_table_lookup(objs, instance_name) # 0
                   THEN DBUS_OBJECT_ALREADY_EXISTS ELSE DBUS_SUCCESS,
         objects |-> IF instance # 0
                     THEN g_hash_table_insert(objs, instance_name, instance)
                     ELSE objs,
         exported |-> ExportedAfter(exp, object_path, instance),
         next_id |-> NextIdAfter(id, instance)]

\* a slip: the lookup is made with the interface name
dbus_create_object_params_wrong_key(objs, exp, id, conn, instance_name, interface_name, vrid, family) ==
    LET object_path == dbus_object_create_path_instance(interface_name, vrid, family)
        instance == g_dbus_connection_register_object(conn, exp, id, object_path)
    IN  IF g_hash_table_lookup(objs, interface_name) # 0
        THEN [reply |-> DBUS_OBJECT_ALREADY_EXISTS, objects |-> objs,
              exported |-> exp, next_id |-> id]
        ELSE [reply |-> DBUS_SUCCESS,
              objects |-> IF instance # 0
                          THEN g_hash_table_insert(objs, instance_name, instance)
                          ELSE objs,
              exported |-> ExportedAfter(exp, object_path, instance),
              next_id |-> NextIdAfter(id, instance)]

dbus_create_object_params(objs, exp, id, conn, instance_name, interface_name, vrid, family) ==
    IF g_hash_table_lookup(objs, instance_name) # 0
    THEN [reply |-> DBUS_OBJECT_ALREADY_EXISTS, objects |-> objs,
          exported |-> exp, next_id |-> id]
    ELSE LET object_path == dbus_object_create_path_instance(interface_name, vrid, family)
             instance == g_dbus_connection_register_object(conn, exp, id, object_path)
         IN  [reply |-> DBUS_SUCCESS,
              objects |-> IF instance # 0
                          THEN g_hash_table_insert(objs, instance_name, instance)
                          ELSE objs,
              exported |-> ExportedAfter(exp, object_path, instance),
              next_id |-> NextIdAfter(id, instance)]

\* dbus_unregister_object (with unregister_object): nothing is returned
dbus_unregister_object(objs, exp, conn, str) ==
    LET value == g_hash_table_lookup(objs, str)
    IN  IF value # 0
        THEN [objects |-> g_hash_table_remove(objs, str),
              exported |-> g_dbus_connection_unregister_object(conn, exp, value)]
        ELSE [objects |-> objs, exported |-> exp]

\* the family CreateInstance was given, as an address family
CreateFamily(family) ==
    IF family = 4 THEN AF_INET ELSE IF family = 6 THEN AF_INET6 ELSE AF_UNSPEC

\* handle_dbus_msg between get_queue_ent and return_dbus_msg: the action of
\* entry e is executed on the registry, the connection and the instances
handle_action(e, objs, exp, id, conn, list, g) ==
    LET same == [ent |-> [e EXCEPT !.reply = DBUS_SUCCESS, !.st = "Completed"],
                 objects |-> objs, exported |-> exp, next_id |-> id, garps |-> g]
    IN  CASE e.action = DBUS_CREATE_INSTANCE ->
               LET r == dbus_create_object_params(objs, exp, id, conn, e.args.name,
                            e.str, e.val, CreateFamily(e.args.family))
               IN  [same EXCEPT !.ent.reply = r.reply, !.objects = r.objects,
                                !.exported = r.exported, !.next_id = r.next_id]
          [] e.action = DBUS_DESTROY_INSTANCE ->
               LET r == dbus_unregister_object(objs, exp, conn, e.str)
               IN  [same EXCEPT !.objects = r.objects, !.exported = r.exported]
          [] e.action = DBUS_SEND_GARP ->
               LET i == find_iname_from(list, 1, e.str)
               IN  IF i # 0
                   THEN [same EXCEPT !.garps[i] = @ + 1]
                   ELSE [same EXCEPT !.ent.reply = DBUS_INTERFACE_NOT_FOUND]
          [] e.action \in {DBUS_GET_NAME, DBUS_GET_STATUS} ->
               LET i == get_vrrp_instance(list, e.str, e.val, e.args.family)
               IN  IF i = 0
                   THEN [same EXCEPT !.ent.reply = DBUS_INTERFACE_NOT_FOUND]
                   ELSE IF e.action = DBUS_GET_NAME
                        THEN [same EXCEPT
                                 !.ent.str = strncpy_term(list[i].iname, IFNAMSIZ + 1)]
                        ELSE [same EXCEPT !.ent.val = list[i].state]
          [] OTHER -> same

-----------------------------------------------------------------------------
(* The owner thread: the scheduler and handle_dbus_msg *)

\* fcntl(dbus_in_pipe[0], F_SETFL, O_NONBLOCK | ...) in dbus_start
in_pipe_blocking == FALSE
in_pipe_nonblock == TRUE

\* the scheduler finds dbus_in_pipe[0] readable and calls handle_dbus_msg;
\* the registration made by thread_add_read is used up
SchedulerReadable ==
    /\ ~crashed /\ own_pc = "idle" /\ armed
    /\ dbus_in_pipe > 0
    /\ own_pc' = "h_read"
    /\ armed' = FALSE
    /\ UNCHANGED <<daemonVars, busVars, queueVars, thread_end, heap,
                   svcVars, o_ent, crashed, ncalls, codecVars, reloadVars, statsVars>>

\* a spurious wake: handle_dbus_msg is called with nothing to read
SchedulerSpurious ==
    /\ ~crashed /\ own_pc = "idle" /\ armed
    /\ dbus_in_pipe = 0
    /\ own_pc' = "h_read"
    /\ armed' = FALSE
    /\ UNCHANGED <<daemonVars, busVars, queueVars, thread_end, heap,
                   svcVars, o_ent, crashed, ncalls, codecVars, reloadVars, statsVars>>

\* read(dbus_in_pipe[0], &recv_buf, 1): the result is not looked at
HRead ==
    /\ ~crashed /\ own_pc = "h_read"
    /\ in_pipe_nonblock \/ dbus_in_pipe > 0
    /\ dbus_in_pipe' = IF dbus_in_pipe > 0 THEN dbus_in_pipe - 1 ELSE dbus_in_pipe
    /\ own_pc' = "h_get"
    /\ UNCHANGED <<daemonVars, busVars, dbus_in_queue, dbus_out_queue,
                   dbus_out_pipe, thread_end, heap, svcVars, o_ent,
                   armed, crashed, ncalls, codecVars, reloadVars, statsVars>>

\* a slip: the head is returned and left on the list
get_queue_ent_keep(l) ==
    IF ~LIST_ISEMPTY(l)
    THEN [ent |-> Head(l.els), list |-> l]
    ELSE [ent |-> 0, list |-> l]
\* get_queue_ent: under in_queue_lock the head of the list is taken off it
\* and its data returned; NULL (0) when the list is empty or NULL
get_queue_ent(l) ==
    IF ~LIST_ISEMPTY(l)
    THEN [ent |-> Head(l.els), list |-> [l EXCEPT !.els = Tail(@)]]
    ELSE [ent |-> 0, list |-> l]

\* handle_dbus_msg after the read: get_queue_ent; with no entry
\* handle_dbus_msg re-registers itself with thread_add_read and returns
HGet ==
    /\ ~crashed /\ own_pc = "h_get"
    /\ LET r == get_queue_ent(dbus_in_queue)
       IN  /\ o_ent' = r.ent
           /\ dbus_in_queue' = r.list
           /\ IF r.ent # 0
              THEN own_pc' = "h_exec" /\ UNCHANGED armed
              ELSE own_pc' = "idle" /\ armed' = TRUE
    /\ UNCHANGED <<daemonVars, busVars, dbus_out_queue, dbus_in_pipe,
                   dbus_out_pipe, thread_end, heap, svcVars, crashed, ncalls,
                   codecVars, reloadVars, statsVars>>

\* the action is executed and the reply fields are set on the same entry
\* (an entry process_method_call has freed in the meantime is used after its
\* free: the process faults, or the memory is still there and what is done
\* with its content is not followed)
HExec ==
    /\ ~crashed /\ own_pc = "h_exec"
    /\ IF o_ent \in DOMAIN heap
       THEN /\ LET r == handle_action(heap[o_ent], objects, exported, next_id,
                                      global_connection, vrrp_data, garps)
               IN  /\ heap' = [heap EXCEPT ![o_ent] = r.ent]
                   /\ objects' = r.objects
                   /\ exported' = r.exported
                   /\ next_id' = r.next_id
                   /\ garps' = r.garps
            /\ own_pc' = "h_ret_add"
            /\ UNCHANGED crashed
       ELSE /\ \/ crashed' = TRUE /\ UNCHANGED own_pc
               \/ own_pc' = "h_ret_add" /\ UNCHANGED crashed
            /\ UNCHANGED <<heap, objects, exported, next_id, garps>>
    /\ UNCHANGED <<vrrp_data, bus, global_connection, loop, signals, queueVars,
                   thread_end, svcVars, o_ent, armed, ncalls, codecVars, reloadVars, statsVars>>

\* return_dbus_msg: the entry is appended to dbus_out_queue under out_queue_lock
HRetAdd ==
    /\ ~crashed /\ own_pc = "h_ret_add"
    /\ dbus_out_queue' = [dbus_out_queue EXCEPT !.els = Append(@, o_ent)]
    /\ own_pc' = "h_ret_write"
    /\ UNCHANGED <<daemonVars, busVars, dbus_in_queue, dbus_in_pipe,
                   dbus_out_pipe, thread_end, heap, svcVars, o_ent, armed, crashed, ncalls, codecVars, reloadVars, statsVars>>

\* a slip: the byte is not written
return_dbus_msg_write_lost(n) == n
\* a slip: two bytes are written
return_dbus_msg_write_twice(n) == n + 2
\* return_dbus_msg: write(dbus_out_pipe[1], ent, 1)
return_dbus_msg_write(n) == n + 1

\* the byte is written, then handle_dbus_msg re-registers itself with
\* thread_add_read(master, handle_dbus_msg, NULL, dbus_in_pipe[0], TIMER_NEVER)
\* and returns

HRetWrite ==
    /\ ~crashed /\ own_pc = "h_ret_write"
    /\ dbus_out_pipe' = return_dbus_msg_write(dbus_out_pipe)
    /\ armed' = TRUE
    /\ o_ent' = 0
    /\ own_pc' = "idle"
    /\ UNCHANGED <<daemonVars, busVars, dbus_in_queue, dbus_out_queue,
                   dbus_in_pipe, thread_end, heap, svcVars, crashed, ncalls,
                   codecVars, reloadVars, statsVars>>

\* the protocol engine moves an instance between backup and master
VrrpStateChange ==
    /\ ~crashed /\ own_pc = "idle"
    /\ \E i \in 1..Len(vrrp_data) :
         LET vrrp == [vrrp_data[i] EXCEPT !.state =
                         IF @ = VRRP_STATE_BACK THEN VRRP_STATE_MAST
                         ELSE VRRP_STATE_BACK]
         IN  vrrp_data' = [vrrp_data EXCEPT ![i] = vrrp]
    /\ UNCHANGED <<garps, bus, global_connection, exported, next_id, objects,
                   loop, signals, queueVars, thread_end, heap, svcVars, ownVars, crashed,
                   ncalls, codecVars, reloadVars, statsVars>>

-----------------------------------------------------------------------------
(* The owner thread: dbus_stop *)

\* free_list(&dbus_in_queue); dbus_in_queue = NULL, under in_queue_lock
DbusStopIn ==
    /\ ~crashed /\ own_pc = "idle"
    /\ dbus_in_queue' = NullList
    /\ own_pc' = "stop_out"
    /\ UNCHANGED <<daemonVars, busVars, dbus_out_queue, dbus_in_pipe,
                   dbus_out_pipe, thread_end, heap, svcVars, o_ent, armed, crashed, ncalls, codecVars, reloadVars, statsVars>>

\* free_list(&dbus_out_queue); dbus_out_queue = NULL, under out_queue_lock
DbusStopOut ==
    /\ ~crashed /\ own_pc = "stop_out"
    /\ dbus_out_queue' = NullList
    /\ own_pc' = "stop_quit"
    /\ UNCHANGED <<daemonVars, busVars, dbus_in_queue, dbus_in_pipe,
                   dbus_out_pipe, thread_end, heap, svcVars, o_ent, armed, crashed, ncalls, codecVars, reloadVars, statsVars>>

\* the VrrpStopped signal and g_main_loop_quit(loop), which does nothing
\* on a NULL loop
DbusStopQuit ==
    /\ ~crashed /\ own_pc = "stop_quit"
    /\ signals' = IF global_connection # "NULL"
                  THEN Append(signals, Signal("VrrpStopped", dbus_object_create_path_vrrp,
                                              "dbus_stop"))
                  ELSE signals
    /\ loop' = IF loop = "running" THEN "quit" ELSE loop
    /\ IF svc_pc = "dbus_main"
       THEN crashed' = TRUE /\ UNCHANGED own_pc
       ELSE own_pc' = "stop_wait" /\ UNCHANGED crashed
    /\ UNCHANGED <<daemonVars, bus, global_connection, exported, next_id,
                   objects, queueVars, thread_end, heap, svcVars, o_ent, armed,
                   ncalls, codecVars, reloadVars, statsVars>>

\* sem_timedwait(&thread_end, now + 1 s) got the semaphore: "Released DBus"
DbusStopReleased ==
    /\ ~crashed /\ own_pc = "stop_wait"
    /\ thread_end > 0
    /\ thread_end' = thread_end - 1
    /\ own_pc' = "stopped"
    /\ UNCHANGED <<daemonVars, busVars, queueVars, heap, svcVars,
                   o_ent, armed, crashed, ncalls, codecVars, reloadVars, statsVars>>

\* sem_timedwait ran into its deadline: "DBus thread termination timed out"
DbusStopTimedOut ==
    /\ ~crashed /\ own_pc = "stop_wait"
    /\ thread_end = 0
    /\ own_pc' = "stopped"
    /\ UNCHANGED <<daemonVars, busVars, queueVars, thread_end, heap,
                   svcVars, o_ent, armed, crashed, ncalls, codecVars, reloadVars, statsVars>>

-----------------------------------------------------------------------------
(* The bridge: next-state relations and specifications *)

bridgeVars == <<vrrp_data, garps, bus, global_connection, exported, next_id,
                objects, loop, signals, dbus_in_queue, dbus_out_queue, dbus_in_pipe,
                dbus_out_pipe, thread_end, armed, heap, svc_pc, req,
                call, ent, msg, own_pc, o_ent, crashed, ncalls>>

\* the steps of process_method_call and of its callers after it
CallStep ==
    \/ PmcAdd
    \/ PmcWrite
    \/ PmcRead
    \/ PmcPop
    \/ PmcReturnMethod
    \/ PmcReturnProperty
    \/ PmcReturnGarpName
    \/ PmcReturnGarpNoName
    \/ CallbackReturn

\* the steps of handle_dbus_msg once the scheduler has called it
HandlerStep ==
    \/ HRead
    \/ HGet
    \/ HExec
    \/ HRetAdd
    \/ HRetWrite

\* the bridge while it runs
NextRun ==
    \/ DbusMain
    \/ DbusMainRun
    \/ OnBusAcquired
    \/ OnBusAcquiredStarted
    \/ OnBusAcquiredState
    \/ OnNameLost
    \/ HandleMethodCall
    \/ HandleMethodCallSendGarp
    \/ HandleGetProperty
    \/ HandleMethodCallReloadConfig
    \/ HandleMethodCallNotImplemented
    \/ HandleGetPropertyNotImplemented
    \/ CallStep
    \/ SchedulerReadable
    \/ SchedulerSpurious
    \/ HandlerStep
    \/ VrrpStateChange

\* teardown
NextStop ==
    \/ DbusStopIn
    \/ DbusStopOut
    \/ DbusStopQuit
    \/ DbusStopReleased
    \/ DbusStopTimedOut
    \/ LoopExit

Next == NextRun \/ NextStop

\* the bridge from dbus_start to the end of dbus_stop
Spec == Init /\ [][Next]_vars

\* the bridge with no teardown, where the read of dbus_out_pipe[0] may fail
NextFault == NextRun \/ PmcReadError
SpecFault == Init /\ [][NextFault]_vars

\* the bridge with teardown, both threads running what they started: the
\* dbus thread its start-up and any call it is in, the main loop leaving
\* g_main_loop_run once it was told to quit, dbus_stop running to its end
SpecStop ==
    /\ Init
    /\ [][Next]_vars
    /\ SF_vars(SchedulerReadable)
    /\ WF_vars(HandlerStep)
    /\ WF_vars(CallStep)
    /\ WF_vars(DbusMain \/ DbusMainRun \/ LoopExit)
    /\ WF_vars(DbusStopOut \/ DbusStopQuit \/ DbusStopReleased \/ DbusStopTimedOut)

\* the bridge with no teardown, the scheduler calling handle_dbus_msg when
\* dbus_in_pipe[0] is readable and both threads running what they started
SpecRun ==
    /\ Init
    /\ [][NextRun]_vars
    /\ SF_vars(SchedulerReadable)
    /\ WF_vars(HandlerStep)
    /\ WF_vars(CallStep)

-----------------------------------------------------------------------------
(* The name codec on its own: set_valid_path and valid_path_cmp applied to  *)
(* every pair of interface names of up to MaxLen characters                 *)

CodecChars == {"a", "0", "-", ".", "_"}
CodecNames == UNION {[1..k -> CodecChars] : k \in 0..MaxLen}

InitCodec ==
    /\ InitBridge({<< >>})
    /\ c_pc = "names"
    /\ c_n1 \in CodecNames
    /\ c_n2 \in CodecNames
    /\ c_seg = << >>
    /\ c_match = FALSE
    /\ ReloadIdle /\ StatsIdle

\* the candidate segment is set_valid_path of the second name
CodecCanon ==
    /\ c_pc = "names"
    /\ c_seg' = set_valid_path(c_n2)
    /\ c_pc' = "canon"
    /\ UNCHANGED <<bridgeVars, c_n1, c_n2, c_match, reloadVars, statsVars>>

\* the candidate segment is the second name as it is
CodecRaw ==
    /\ c_pc = "names"
    /\ c_seg' = c_n2
    /\ c_pc' = "raw"
    /\ UNCHANGED <<bridgeVars, c_n1, c_n2, c_match, reloadVars, statsVars>>

\* the first name is compared with the candidate as get_vrrp_instance does
CodecCmp ==
    /\ c_pc \in {"canon", "raw"}
    /\ c_match' = ~valid_path_cmp(c_n1, c_seg)
    /\ c_pc' = IF c_pc = "canon" THEN "cmp_canon" ELSE "cmp_raw"
    /\ UNCHANGED <<bridgeVars, c_n1, c_n2, c_seg, reloadVars, statsVars>>

NextCodec ==
    \/ CodecCanon
    \/ CodecRaw
    \/ CodecCmp

SpecCodec == InitCodec /\ [][NextCodec]_vars

-----------------------------------------------------------------------------
(* The owner thread on a reload: dbus_add_new_instances(o, n) *)

\* instances of the lists before and after a reload: two interfaces whose
\* names give the same path segment, and one interface with the instance
\* under either name
ReloadPool ==
    {Vrrp(Name_VI1, If_dash, 1, AF_INET), Vrrp(Name_VI2, If_dot, 1, AF_INET),
     Vrrp(Name_VI1, If_eth0, 1, AF_INET), Vrrp(Name_VI2, If_eth0, 1, AF_INET)}
ReloadConfigs ==
    { << >>,
      << Vrrp(Name_VI1, If_dash, 1, AF_INET) >>,
      << Vrrp(Name_VI1, If_eth0, 1, AF_INET) >>,
      << Vrrp(Name_VI2, If_eth0, 1, AF_INET) >>,
      << Vrrp(Name_VI1, If_dash, 1, AF_INET), Vrrp(Name_VI2, If_dot, 1, AF_INET) >>,
      << Vrrp(Name_VI1, If_eth0, 1, AF_INET), Vrrp(Name_VI2, If_dot, 1, AF_INET) >> }

InitReload ==
    /\ InitBridge(ReloadConfigs) /\ CodecIdle /\ StatsIdle
    /\ n_pc = "ready"
    /\ n_old = << >>
    /\ n_new \in ReloadConfigs
    /\ n_e1 = 0

\* the reload: the new configuration replaces the old one, and
\* dbus_add_new_instances is called with the two lists
ReloadStart ==
    /\ ~crashed /\ n_pc = "ready"
    /\ bus = "acquired" /\ svc_pc = "loop" /\ own_pc = "idle"
    /\ n_old' = vrrp_data
    /\ vrrp_data' = n_new
    /\ garps' = [i \in 1..Len(n_new) |-> 0]
    /\ n_pc' = "call"
    /\ UNCHANGED <<busVars, queueVars, thread_end, heap, svcVars, ownVars,
                   crashed, ncalls, codecVars, n_new, n_e1, statsVars>>

\* dbus_add_new_instances: nothing is done for an empty n
DbusAddNewInstances ==
    /\ ~crashed /\ n_pc = "call"
    /\ n_pc' = IF LIST_ISEMPTY([null |-> FALSE, els |-> n_new]) THEN "done" ELSE "loop"
    /\ n_e1' = 1
    /\ UNCHANGED <<bridgeVars, codecVars, n_old, n_new, statsVars>>

\* dbus_add_new_instances: an instance of o with the vrid, family and
\* interface of vrrp_n has the name of vrrp_n, or a name some instance of n
\* has
match_found(o, n, vrrp_n) ==
    \E e2 \in 1..Len(o) :
        /\ vrrp_n.vrid = o[e2].vrid
        /\ vrrp_n.family = o[e2].family
        /\ vrrp_n.ifname = o[e2].ifname
        /\ \/ vrrp_n.iname = o[e2].iname
           \/ \E e3 \in 1..Len(n) : o[e2].iname = n[e3].iname

\* dbus_create_object
dbus_create_object(objs, exp, id, conn, vrrp) ==
    dbus_create_object_params(objs, exp, id, conn, vrrp.iname, vrrp.ifname,
                              vrrp.vrid, vrrp.family)

\* one turn of the loop over n.  With o empty dbus_create_object is called
\* with vrrp_n, which has no value yet: the process faults, or the pointer
\* happens to be that of some instance.
DbusAddNewInstancesLoop ==
    /\ ~crashed /\ n_pc = "loop"
    /\ IF LIST_ISEMPTY([null |-> FALSE, els |-> n_old])
       THEN \/ /\ crashed' = TRUE
               /\ UNCHANGED <<objects, exported, next_id, n_pc, n_e1>>
            \/ /\ \E vrrp_n \in ReloadPool :
                    LET r == dbus_create_object(objects, exported, next_id,
                                                global_connection, vrrp_n)
                    IN  /\ objects' = r.objects
                        /\ exported' = r.exported
                        /\ next_id' = r.next_id
               /\ n_e1' = n_e1 + 1
               /\ n_pc' = IF n_e1 = Len(n_new) THEN "done" ELSE "loop"
               /\ UNCHANGED crashed
       ELSE /\ LET vrrp_n == n_new[n_e1]
                   r == dbus_create_object(objects, exported, next_id,
                                           global_connection, vrrp_n)
               IN  IF match_found(n_old, n_new, vrrp_n)
                   THEN UNCHANGED <<objects, exported, next_id>>
                   ELSE /\ objects' = r.objects
                        /\ exported' = r.exported
                        /\ next_id' = r.next_id
            /\ n_e1' = n_e1 + 1
            /\ n_pc' = IF n_e1 = Len(n_new) THEN "done" ELSE "loop"
            /\ UNCHANGED crashed
    /\ UNCHANGED <<daemonVars, bus, global_connection, loop, signals, queueVars,
                   thread_end, heap, svcVars, ownVars, ncalls, codecVars,
                   n_old, n_new, statsVars>>

\* the bridge comes up, then the configuration is reloaded
NextReload ==
    \/ DbusMain
    \/ DbusMainRun
    \/ OnBusAcquired
    \/ OnBusAcquiredStarted
    \/ OnBusAcquiredState
    \/ ReloadStart
    \/ DbusAddNewInstances
    \/ DbusAddNewInstancesLoop

SpecReload == InitReload /\ [][NextReload]_vars

-----------------------------------------------------------------------------
(* The owner thread: vrrp_print_stats(clear_stats) *)

\* the largest value a counter starts with
MaxStat == 2

InitStats ==
    /\ InitBridge(Configs) /\ CodecIdle /\ ReloadIdle
    /\ stats \in [1..Len(vrrp_data) -> 0..MaxStat]
    /\ p_pc = "ready"
    /\ p_asked = FALSE
    /\ p_clear = FALSE
    /\ p_open = FALSE
    /\ p_i = 0
    /\ p_stats0 = << >>

\* a caller that passes clear_stats
PrintStatsCall ==
    /\ p_pc = "ready"
    /\ \E clear_stats \in BOOLEAN :
         /\ p_asked' = clear_stats
         /\ p_clear' = clear_stats
    /\ p_stats0' = stats
    /\ p_pc' = "call"
    /\ UNCHANGED <<bridgeVars, codecVars, reloadVars, stats, p_open, p_i>>

\* handle_dbus_msg, DBUS_PRINT_STATS: vrrp_print_stats() is called with no
\* argument, so clear_stats has whatever value is in its place; the request
\* has no parameter and asked for nothing to be cleared
HandlePrintStats ==
    /\ p_pc = "ready"
    /\ p_asked' = FALSE
    /\ p_clear' \in BOOLEAN
    /\ p_stats0' = stats
    /\ p_pc' = "call"
    /\ UNCHANGED <<bridgeVars, codecVars, reloadVars, stats, p_open, p_i>>

\* vrrp_print_stats: fopen_safe of the statistics file; on failure the
\* function logs and returns
VrrpPrintStatsOpen ==
    /\ p_pc = "call"
    /\ p_open' \in BOOLEAN
    /\ p_pc' = IF p_open' /\ Len(vrrp_data) > 0 THEN "loop" ELSE "done"
    /\ p_i' = 1
    /\ UNCHANGED <<bridgeVars, codecVars, reloadVars, stats, p_asked, p_clear,
                   p_stats0>>

\* vrrp_print_stats: one instance is printed and, with clear_stats, its
\* counters are set to zero; after the last one the file is closed
VrrpPrintStatsLoop ==
    /\ p_pc = "loop"
    /\ stats' = IF p_clear THEN [stats EXCEPT ![p_i] = 0] ELSE stats
    /\ p_i' = p_i + 1
    /\ p_pc' = IF p_i = Len(vrrp_data) THEN "done" ELSE "loop"
    /\ UNCHANGED <<bridgeVars, codecVars, reloadVars, p_asked, p_clear, p_open,
                   p_stats0>>

NextStats ==
    \/ PrintStatsCall
    \/ HandlePrintStats
    \/ VrrpPrintStatsOpen
    \/ VrrpPrintStatsLoop

SpecStats == InitStats /\ [][NextStats]_vars

-----------------------------------------------------------------------------
(* Properties *)

\* the step in which handle_dbus_msg executes the entry it took
HExecStep == own_pc = "h_exec" /\ own_pc' = "h_ret_add"

\* a name is a key of the registry
Registered(name) == \E e \in objects.tbl : e.key = name

\* C1: when a call wakes up and pops dbus_out_queue, the queue is not empty
\* and its head is the very entry this call appended to dbus_in_queue;
\* neither "Empty dbus out queue" nor "Returned dbus entry mismatch" is ever
\* logged.
C1_SingleInFlight == svc_pc = "pmc_ret" => msg = "none"

\* C1 with dbus_stop left out: the same statement over the runs of SpecRun
C1_SingleInFlightRunning ==
    svc_pc = "pmc_ret" => (msg = "none" /\ ent \in DOMAIN heap)

C3_OwnerNeverBlocks ==
    own_pc \in {"h_read", "h_get", "h_exec", "h_ret_add", "h_ret_write"}
        => ENABLED HandlerStep

C3_SpuriousWake == own_pc = "h_get" /\ dbus_in_pipe = 0 /\ LIST_ISEMPTY(dbus_in_queue)
                   /\ ~armed /\ ncalls = 0

\* C4: no name is a key of the registry twice, and a CreateInstance whose
\* name is already a key replies DBUS_OBJECT_ALREADY_EXISTS and leaves the
\* registry as it was.
C4_RegistryUnique ==
    /\ [](\A e1, e2 \in objects.tbl : e1.key = e2.key => e1 = e2)
    /\ [][(/\ HExecStep
           /\ heap[o_ent].action = DBUS_CREATE_INSTANCE
           /\ Registered(heap[o_ent].args.name))
          => (/\ heap'[o_ent].reply = DBUS_OBJECT_ALREADY_EXISTS
              /\ objects' = objects)]_vars

C4_CreateExisting ==
    /\ own_pc = "h_ret_add"
    /\ heap[o_ent].action = DBUS_CREATE_INSTANCE
    /\ heap[o_ent].reply = DBUS_OBJECT_ALREADY_EXISTS
    /\ Registered(heap[o_ent].args.name)

\* C5: a DestroyInstance whose name is not a key of the registry replies
\* DBUS_INTERFACE_NOT_FOUND.
C5_DestroyAbsent ==
    [][(/\ HExecStep
        /\ heap[o_ent].action = DBUS_DESTROY_INSTANCE
        /\ ~Registered(heap[o_ent].str))
       => heap'[o_ent].reply = DBUS_INTERFACE_NOT_FOUND]_vars

\* C6: handle_dbus_msg changes the registry only when it executes a
\* CreateInstance for a name that is not a key or a DestroyInstance for a
\* name that is one; every other action, a CreateInstance that replies
\* DBUS_OBJECT_ALREADY_EXISTS and a DestroyInstance of an absent name leave
\* it as it was.
C6_RegistryFrame ==
    [][HExecStep =>
         LET e == heap[o_ent]
         IN  /\ (objects' # objects) =>
                  \/ e.action = DBUS_CREATE_INSTANCE /\ ~Registered(e.args.name)
                  \/ e.action = DBUS_DESTROY_INSTANCE /\ Registered(e.str)
             /\ (/\ e.action = DBUS_CREATE_INSTANCE
                 /\ heap'[o_ent].reply = DBUS_OBJECT_ALREADY_EXISTS)
                => objects' = objects]_vars

C6_LookupMiss ==
    /\ own_pc = "h_ret_add"
    /\ heap[o_ent].action = DBUS_GET_STATUS
    /\ heap[o_ent].reply = DBUS_INTERFACE_NOT_FOUND
    /\ objects.tbl # {}

\* the spec's matches(original, candidate): the same length, and at every
\* position the candidate has the original's character where that is
\* alphanumeric and '_' where it is not
Matches(original, candidate) ==
    /\ Len(original) = Len(candidate)
    /\ \A i \in 1..Len(original) :
           candidate[i] = IF isalnum(original[i]) THEN original[i] ELSE "_"

\* the instances a lookup by (interface segment, vrid, family) refers to
Matching(list, segment, vrid, family) ==
    {i \in DOMAIN list : /\ list[i].vrid = vrid
                         /\ list[i].family = family
                         /\ Matches(list[i].ifname, segment)}

\* C7: a GetName or GetStatus lookup replies DBUS_SUCCESS exactly when some
\* live instance has the vrid and the family asked for and an interface name
\* that matches the segment, and DBUS_INTERFACE_NOT_FOUND otherwise; on
\* success the payload is a matching instance's full name (GetName) or its
\* state (GetStatus).
C7_Lookup ==
    [][(HExecStep /\ heap[o_ent].action \in {DBUS_GET_NAME, DBUS_GET_STATUS}) =>
         LET e == heap[o_ent]
             r == heap'[o_ent]
             M == Matching(vrrp_data, e.str, e.val, e.args.family)
         IN  /\ r.reply = IF M # {} THEN DBUS_SUCCESS ELSE DBUS_INTERFACE_NOT_FOUND
             /\ M # {} =>
                  \E i \in M :
                      IF e.action = DBUS_GET_NAME
                      THEN r.str = vrrp_data[i].iname
                      ELSE r.val = vrrp_data[i].state]_vars

\* the live instance an exported path was built from, 0 when there is none
PathInstances(path) ==
    {i \in DOMAIN vrrp_data :
        dbus_object_create_path_instance(vrrp_data[i].ifname, vrrp_data[i].vrid,
                                         vrrp_data[i].family) = path}

\* C8: a SendGarp on the object of a live instance is answered with
\* DBUS_SUCCESS on both of its internal calls, and between the call and its
\* answer exactly one announcement was triggered, on an instance the path
\* refers to, whatever that instance's name.
C8_SendUpdate ==
    (svc_pc = "answered" /\ req.method = "SendGarp" /\ PathInstances(req.path) # {})
      => /\ req.answer = "value"
         /\ req.reply = DBUS_SUCCESS
         /\ \E i \in PathInstances(req.path) :
                garps = [req.garps0 EXCEPT ![i] = @ + 1]

\* C9: set_valid_path keeps the length and leaves only alphanumerics and
\* '_'; a name matches its own segment; two names with the same segment
\* match each other's segment; names and candidates of different lengths
\* never match.
C9_Codec ==
    /\ c_pc \in {"canon", "cmp_canon"} =>
         /\ Len(c_seg) = Len(c_n2)
         /\ \A i \in 1..Len(c_seg) : isalnum(c_seg[i]) \/ c_seg[i] = "_"
    /\ (c_pc = "cmp_canon" /\ c_n1 = c_n2) => c_match
    /\ (c_pc = "cmp_canon" /\ set_valid_path(c_n1) = set_valid_path(c_n2)) => c_match
    /\ (c_pc \in {"cmp_canon", "cmp_raw"} /\ Len(c_n1) # Len(c_seg)) => ~c_match

C9_Collision ==
    /\ c_pc = "cmp_canon" /\ c_match
    /\ c_n1 # c_n2 /\ Len(c_n1) = MaxLen
    /\ c_n1[1] = "-" /\ c_n2[1] = "."

\* C10: the registry (the table itself, and every key in it) changes only in
\* steps of the owner thread.
C10_OwnerOnly ==
    [][objects' # objects => (own_pc' # own_pc \/ vrrp_data' # vrrp_data)]_vars

\* C11: the dbus thread is never inside a read of the list of configured
\* instances or of a field of one of them (on_bus_acquired's loop calling
\* dbus_send_state_signal is such a read) in a state where the owner thread
\* can change an instance.
C11_CoreDataOwnerOnly ==
    svc_pc = "oba_state" => ~ENABLED VrrpStateChange

\* C12: an execution of a CreateInstance or DestroyInstance request, whatever
\* its name argument, leaves the "__Vrrp__" entry of the registry as it was
\* and the root object exported.
C12_SentinelKept ==
    [][(/\ HExecStep
        /\ heap[o_ent].action \in {DBUS_CREATE_INSTANCE, DBUS_DESTROY_INSTANCE}
        /\ Registered(Name_Root)
        /\ Exported(dbus_object_create_path_vrrp))
       => /\ {e \in objects'.tbl : e.key = Name_Root}
               = {e \in objects.tbl : e.key = Name_Root}
          /\ \E x \in exported' : x.path = dbus_object_create_path_vrrp]_vars

\* the signals on_bus_acquired has emitted, in order
StartupSignals == SelectSeq(signals, LAMBDA x : x.by = "on_bus_acquired")

\* C13: once on_bus_acquired has returned, whatever the configuration, it
\* has emitted VrrpStarted exactly once and after it one VrrpStatusChange
\* per configured instance, in the order of the list, and nothing else.
C13_Startup ==
    (bus = "acquired" /\ svc_pc \notin {"oba_started", "oba_state"})
      => /\ Len(StartupSignals) = 1 + Len(vrrp_data)
         /\ StartupSignals[1] = Signal("VrrpStarted", dbus_object_create_path_vrrp,
                                       "on_bus_acquired")
         /\ \A i \in 1..Len(vrrp_data) :
               StartupSignals[i + 1] =
                   Signal("VrrpStatusChange",
                          dbus_object_create_path_instance(vrrp_data[i].ifname,
                              vrrp_data[i].vrid, vrrp_data[i].family),
                          "on_bus_acquired")

\* C14: once dbus_stop has returned the registry holds no entry and no
\* object, root or instance, is registered with the connection.
C14_StopReleasesAll ==
    own_pc = "stopped" => (objects.tbl = {} /\ exported = {})

\* dbus_stop has been entered
InDbusStop == own_pc \in {"stop_out", "stop_quit", "stop_wait", "stopped"}

\* C15: when dbus_stop runs while the dbus thread is blocked in
\* process_method_call's read of dbus_out_pipe[0], the thread leaves the
\* read, the main loop ends and dbus_main comes to its end, where it posts
\* thread_end.
C15_BlockedCallEnds ==
    (svc_pc = "pmc_read" /\ InDbusStop) ~> (svc_pc = "exited")

\* C16: whatever the dbus thread is doing, dbus_stop, once it has freed
\* dbus_in_queue, comes to its end: thread_end was posted ("Released DBus")
\* or the wait ran into its deadline ("DBus thread termination timed out").
C16_StopReturns ==
    (own_pc = "stop_out") ~> (own_pc = "stopped")

\* a request that names an interface, a method or a property the dispatcher
\* does not know
ProtocolError(r) ==
    /\ r.method # "none"
    /\ \/ r.interface \notin {DBUS_VRRP_INTERFACE, DBUS_VRRP_INSTANCE_INTERFACE}
       \/ /\ r.interface = DBUS_VRRP_INTERFACE
          /\ r.method \notin {"PrintData", "PrintStats", "ReloadConfig",
                               "CreateInstance", "DestroyInstance"}
       \/ /\ r.interface = DBUS_VRRP_INSTANCE_INTERFACE
          /\ r.method \notin {"SendGarp", "Name", "State"}

\* C17: a request that names an unknown interface, method or property is
\* answered at once with a "not implemented" error, and handling it leaves
\* the heap of entries, both queues and both pipes as they were.
C17_NotImplemented ==
    [][(svc_pc = "loop" /\ svc_pc' # "loop" /\ ProtocolError(req'))
       => /\ svc_pc' = "answered"
          /\ req'.answer \in {"Method not implemented", "Interface not implemented"}
          /\ UNCHANGED <<queueVars, heap>>]_vars

\* C18: every external call that went through the bridge is answered with a
\* value, whatever reply the owner thread set on the entry: a reply of
\* DBUS_INTERFACE_NOT_FOUND or DBUS_OBJECT_ALREADY_EXISTS is not turned into
\* a failure of the external call.
C18_DomainErrorNoOp ==
    (svc_pc = "answered" /\ req.reply # "none") => req.answer = "value"

\* C19: when the execution of a CreateInstance request sets the reply
\* DBUS_SUCCESS, the registry then maps the given name to the registration
\* id of an exported object whose path is the one derived from the given
\* interface, vrid and family (so a registration that returned no id does
\* not end in DBUS_SUCCESS).
C19_CreateSuccess ==
    [][(/\ HExecStep
        /\ heap[o_ent].action = DBUS_CREATE_INSTANCE
        /\ heap'[o_ent].reply = DBUS_SUCCESS)
       => \E e \in objects'.tbl :
            /\ e.key = heap[o_ent].args.name
            /\ [path |-> dbus_object_create_path_instance(heap[o_ent].str,
                             heap[o_ent].val, CreateFamily(heap[o_ent].args.family)),
                id |-> e.value] \in exported']_vars

\* how often entry e is on list l
Occurrences(l, e) == Cardinality({k \in 1..Len(l.els) : l.els[k] = e})

\* C20: one run of handle_dbus_msg takes at most one entry off
\* dbus_in_queue.  With an entry it sets the reply on that entry, appends
\* that entry to dbus_out_queue, where it then is exactly once, and writes
\* one byte to dbus_out_pipe; with dbus_in_queue empty it appends nothing
\* and writes no byte.  Either way it has re-registered itself for
\* dbus_in_pipe when it returns, and no other step of it touches the queues
\* or dbus_out_pipe.
C20_DrainOne ==
    [][/\ (own_pc = "h_read" /\ own_pc' # own_pc)
          => UNCHANGED <<dbus_in_queue, dbus_out_queue, dbus_out_pipe>>
       /\ (own_pc = "h_get" /\ own_pc' # own_pc)
          => IF LIST_ISEMPTY(dbus_in_queue)
             THEN /\ UNCHANGED queueVars
                  /\ own_pc' = "idle" /\ armed'
             ELSE /\ o_ent' = Head(dbus_in_queue.els)
                  /\ dbus_in_queue'.els = Tail(dbus_in_queue.els)
                  /\ UNCHANGED <<dbus_out_queue, dbus_out_pipe>>
                  /\ own_pc' = "h_exec"
       /\ (own_pc = "h_exec" /\ own_pc' # own_pc)
          => /\ o_ent' = o_ent
             /\ heap'[o_ent].st = "Completed"
             /\ heap'[o_ent].reply \in {DBUS_SUCCESS, DBUS_INTERFACE_NOT_FOUND,
                                         DBUS_OBJECT_ALREADY_EXISTS}
             /\ UNCHANGED queueVars
             /\ own_pc' = "h_ret_add"
       /\ (own_pc = "h_ret_add" /\ own_pc' # own_pc)
          => /\ o_ent' = o_ent
             /\ dbus_out_queue'.els = Append(dbus_out_queue.els, o_ent)
             /\ Occurrences(dbus_out_queue', o_ent) = 1
             /\ Occurrences(dbus_in_queue', o_ent) = 0
             /\ UNCHANGED <<dbus_in_queue, dbus_out_pipe>>
             /\ own_pc' = "h_ret_write"
       /\ (own_pc = "h_ret_write" /\ own_pc' # own_pc)
          => /\ dbus_out_pipe' = dbus_out_pipe + 1
             /\ UNCHANGED <<dbus_in_queue, dbus_out_queue>>
             /\ own_pc' = "idle" /\ armed'
      ]_vars

\* an entry was taken off dbus_in_queue, executed and appended to
\* dbus_out_queue, and the byte is about to be written
C20_Drained ==
    /\ own_pc = "h_ret_write"
    /\ heap[o_ent].st = "Completed"
    /\ Occurrences(dbus_out_queue, o_ent) = 1
    /\ dbus_out_pipe = 0

\* entry e is on a queue or in the hands of handle_dbus_msg
Appended(e) ==
    \/ Occurrences(dbus_in_queue, e) = 1
    \/ o_ent = e
    \/ Occurrences(dbus_out_queue, e) = 1

C22_ReleaseAfterReply ==
    [][\A a \in DOMAIN heap \ DOMAIN heap' :
          /\ svc_pc = "pmc_ret" /\ a = ent
          /\ heap[a].st = "Completed"
          /\ Occurrences(dbus_in_queue, a) = 0
          /\ Occurrences(dbus_out_queue, a) = 0
          /\ o_ent # a]_vars

\* an instance of the old list has the interface, id and family of vrrp
KeyInOld(vrrp) ==
    \E j \in 1..Len(n_old) :
        /\ n_old[j].ifname = vrrp.ifname
        /\ n_old[j].vrid = vrrp.vrid
        /\ n_old[j].family = vrrp.family

INames(l) == {l[i].iname : i \in 1..Len(l)}

\* C23: when dbus_add_new_instances(old, new) has returned, every instance of
\* new whose (interface, id, family) matches no instance of old has an object
\* exported on the connection and registered under its own name, and the
\* registry holds no name other than the sentinel, the names of old and the
\* names of new; the call returns for every old list, the empty one included.
C23_ReloadAddsNew ==
    /\ ~crashed
    /\ n_pc = "done" =>
          /\ \A i \in 1..Len(n_new) :
                ~KeyInOld(n_new[i]) =>
                    g_hash_table_lookup(objects, n_new[i].iname)
                        \in {x.id : x \in exported}
          /\ \A e \in objects.tbl :
                e.key \in {Name_Root} \cup INames(n_old) \cup INames(n_new)

\* the same with a non-empty old list and interfaces of distinct path
\* segments only
C23_ReloadAddsNewSane ==
    (/\ n_pc \in {"loop", "done"}
     /\ n_old # << >>
     /\ \A i \in 1..Len(n_new) : n_new[i].ifname # If_dot
     /\ \A i \in 1..Len(n_old) : n_old[i].ifname # If_dot)
    => C23_ReloadAddsNew

\* vrrp_print_stats has returned
PrintStatsDone == p_pc = "done"

C24_ClearAsParameter ==
    PrintStatsDone =>
        IF p_clear /\ p_open
        THEN \A i \in 1..Len(stats) : stats[i] = 0
        ELSE stats = p_stats0

\* the methods of the two interfaces
MethodNames ==
    {"PrintData", "PrintStats", "ReloadConfig", "CreateInstance",
     "DestroyInstance", "SendGarp"}

\* the request in hand came in through handle_method_call
IsMethodCall ==
    \/ req.method \in MethodNames
    \/ \E c \in UnknownMethodCalls :
          c.method = req.method /\ c.interface = req.interface

\* C25: when handle_method_call returns, its invocation has been answered,
\* with a value response or with an error response, on every path through
\* the dispatcher, a SendGarp whose name could not be read included.
C25_AnsweredOnReturn ==
    (svc_pc = "answered" /\ IsMethodCall)
      => req.answer \in {"value", "Method not implemented",
                         "Interface not implemented"}

\* process_method_call appends its entry to dbus_in_queue
PmcAddStep == svc_pc = "pmc_add" /\ heap' # heap

\* process_method_call inspects and pops dbus_out_queue
PmcPopStep == svc_pc = "pmc_pop" /\ svc_pc' = "pmc_ret"

\* C26: once dbus_stop has freed a queue and set it to NULL no thread uses
\* it: process_method_call makes neither its append to dbus_in_queue nor its
\* pop of dbus_out_queue, and handle_dbus_msg neither its pop of
\* dbus_in_queue nor its append to dbus_out_queue, on a queue that is NULL.
C26_NoUseAfterStop ==
    [][/\ PmcAddStep => ~dbus_in_queue.null
       /\ PmcPopStep => ~dbus_out_queue.null
       /\ (own_pc = "h_get" /\ own_pc' # own_pc) => ~dbus_in_queue.null
       /\ (own_pc = "h_ret_add" /\ own_pc' # own_pc) => ~dbus_out_queue.null]_vars

\* the part of C26 about the pop alone
C26_NoPopAfterStop == [][PmcPopStep => ~dbus_out_queue.null]_vars

\* the part of C26 about the owner thread alone
C26_OwnerNoUseAfterStop ==
    [][/\ (own_pc = "h_get" /\ own_pc' # own_pc) => ~dbus_in_queue.null
       /\ (own_pc = "h_ret_add" /\ own_pc' # own_pc) => ~dbus_out_queue.null]_vars

====
